---- MODULE Spec2Model ----
(***************************************************************************)
(* Model of the frame loop of aqua-engine: State (src/src/lib.rs), its     *)
(* handlers resize / input / update / render, and the event-loop closure   *)
(* of run().  Every handler is a function from the State record to the new *)
(* State record plus the list of device / surface / queue / controller     *)
(* calls it makes, in program order.                                       *)
(***************************************************************************)
EXTENDS Integers, Sequences, FiniteSets, TLC

\* ------------------------------------------------------------------ bounds
MaxDim == 2        \* window widths and heights are drawn from 0..MaxDim
MaxFrames == 2     \* redraws handled in one run
MaxAccum == 1      \* magnitude of the controller's pending mouse / scroll delta

\* --------------------------------------------------------------- constants
NUM_INSTANCES_PER_ROW == 10
NumInstances == NUM_INSTANCES_PER_ROW * NUM_INSTANCES_PER_ROW

VARIABLES
    state,          \* the State struct owned by run()
    control_flow,   \* *control_flow at the end of the last closure call
    event,          \* the event the closure was last called with
    consumed,       \* what State::input returned for it ("none": not called)
    calls,          \* the calls made while handling it, in order
    last_left,      \* most recent left-button event delivered to State::input
    shown,          \* material bound by the most recent presented frame
    toggled         \* Space events delivered since that frame (see SpaceStep)

vars == <<state, control_flow, event, consumed, calls, last_left, shown, toggled>>

\* ----------------------------------------------------------------- helpers
RECURSIVE Gcd(_, _)
Gcd(a, b) == IF b = 0 THEN a ELSE Gcd(b, a % b)

\* width as f32 / height as f32, kept as a fraction in lowest terms;
\* <<1, 0>> is +inf and <<0, 0>> is NaN.
Aspect(width, height) ==
    IF width = 0 /\ height = 0 THEN <<0, 0>>
    ELSE <<width \div Gcd(width, height), height \div Gcd(width, height)>>

Dim(width, height) == [width |-> width, height |-> height]

\* one recorded call: its name, the object it is given, a count and a size
Call(op, arg, n, dim) == [op |-> op, arg |-> arg, n |-> n, dim |-> dim]

Op(op, arg) == Call(op, arg, 0, Dim(0, 0))

\* -------------------------------------------------------------- collaborators
\* camera::Projection::new / Projection::resize
ProjectionNew(width, height) == [aspect |-> Aspect(width, height)]

ProjectionResize(projection, width, height) ==
    [projection EXCEPT !.aspect = Aspect(width, height)]

\* texture::Texture::create_depth_texture(&device, &config, ..)
create_depth_texture(config) == Dim(config.width, config.height)

\* camera::CameraController
CameraKeys == {"W", "S", "A", "D", "LShift"}

CameraControllerNew ==
    [amount_forward |-> 0, rotate_horizontal |-> 0, scroll |-> 0]

process_keyboard(controller, key, key_state) ==
    LET amount == IF key_state = "Pressed" THEN 1 ELSE 0
    IN  IF key = "W"
        THEN [controller |-> [controller EXCEPT !.amount_forward = amount],
              ret |-> TRUE]
        ELSE [controller |-> controller, ret |-> key \in CameraKeys]

process_mouse(controller, dx) ==
    [controller EXCEPT !.rotate_horizontal = @ + dx]

process_scroll(controller, delta) ==
    [controller EXCEPT !.scroll = @ + delta]

\* CameraController::update_camera(&mut camera, dt)
update_camera(controller, camera, dt) ==
    [camera |-> [camera EXCEPT
                    !.position = @ + controller.amount_forward * dt
                                   + controller.scroll * dt,
                    !.yaw = @ + controller.rotate_horizontal * dt],
     controller |-> [controller EXCEPT !.rotate_horizontal = 0, !.scroll = 0]]

\* CameraUniform::update_view_proj(&camera, &projection)
update_view_proj(camera, projection) ==
    [position |-> camera.position, yaw |-> camera.yaw,
     aspect |-> projection.aspect]

\* ------------------------------------------------------------------- State
\* State::new, with window.inner_size() = (width, height)
StateNew(width, height) ==
    LET config == Dim(width, height)
        camera == [position |-> 0, yaw |-> 0]
        projection == ProjectionNew(config.width, config.height)
    IN  [size |-> Dim(width, height),
         config |-> config,
         camera |-> camera,
         projection |-> projection,
         camera_controller |-> CameraControllerNew,
         camera_uniform |-> update_view_proj(camera, projection),
         camera_buffer |-> update_view_proj(camera, projection),
         instances |-> NumInstances,
         depth_texture |-> create_depth_texture(config),
         light_uniform |-> 0,
         light_buffer |-> 0,
         use_debug |-> FALSE,
         mouse_pressed |-> FALSE]

\* State::resize guarded by "width > 0 || height > 0"
resize_either_positive(self, new_size) ==
    IF new_size.width > 0 \/ new_size.height > 0
    THEN LET config == Dim(new_size.width, new_size.height)
         IN  [self |-> [self EXCEPT
                  !.projection = ProjectionResize(@, new_size.width, new_size.height),
                  !.size = new_size,
                  !.config = config,
                  !.depth_texture = create_depth_texture(config)],
              calls |-> <<Call("surface.configure", "config", 0, config),
                          Call("create_depth_texture", "config", 0, config)>>]
    ELSE [self |-> self, calls |-> <<>>]

\* State::resize that hands the projection (height, width)
resize_swapped_projection(self, new_size) ==
    IF new_size.width > 0 /\ new_size.height > 0
    THEN LET config == Dim(new_size.width, new_size.height)
         IN  [self |-> [self EXCEPT
                  !.projection = ProjectionResize(@, new_size.height, new_size.width),
                  !.size = new_size,
                  !.config = config,
                  !.depth_texture = create_depth_texture(config)],
              calls |-> <<Call("surface.configure", "config", 0, config),
                          Call("create_depth_texture", "config", 0, config)>>]
    ELSE [self |-> self, calls |-> <<>>]

\* State::resize that reconfigures the surface and leaves the depth texture
\* for a later frame to recreate
resize_defers_depth_texture(self, new_size) ==
    IF new_size.width > 0 /\ new_size.height > 0
    THEN LET config == Dim(new_size.width, new_size.height)
         IN  [self |-> [self EXCEPT
                  !.projection = ProjectionResize(@, new_size.width, new_size.height),
                  !.size = new_size,
                  !.config = config],
              calls |-> <<Call("surface.configure", "config", 0, config)>>]
    ELSE [self |-> self, calls |-> <<>>]

\* State::resize
resize(self, new_size) ==
    IF new_size.width > 0 /\ new_size.height > 0
    THEN LET config == Dim(new_size.width, new_size.height)
         IN  [self |-> [self EXCEPT
                  !.projection = ProjectionResize(@, new_size.width, new_size.height),
                  !.size = new_size,
                  !.config = config,
                  !.depth_texture = create_depth_texture(config)],
              calls |-> <<Call("surface.configure", "config", 0, config),
                          Call("create_depth_texture", "config", 0, config)>>]
    ELSE [self |-> self, calls |-> <<>>]

\* State::input with Space as a toggle: a press flips use_debug, a release
\* leaves it
input_toggles(self, ev) ==
    IF ev.kind = "KeyboardInput" /\ ev.key = "Space"
    THEN [self |-> [self EXCEPT !.use_debug =
                      IF ev.state = "Pressed" THEN ~@ ELSE @],
          ret |-> TRUE, calls |-> <<>>]
    ELSE IF ev.kind = "KeyboardInput" /\ ev.key # "None"
    THEN LET r == process_keyboard(self.camera_controller, ev.key, ev.state)
         IN  [self |-> [self EXCEPT !.camera_controller = r.controller],
              ret |-> r.ret,
              calls |-> <<Op("process_keyboard", ev.key)>>]
    ELSE IF ev.kind = "MouseWheel"
    THEN [self |-> [self EXCEPT
                      !.camera_controller = process_scroll(@, ev.delta)],
          ret |-> TRUE,
          calls |-> <<Op("process_scroll", "delta")>>]
    ELSE IF ev.kind = "MouseInput" /\ ev.button = "Left"
    THEN [self |-> [self EXCEPT !.mouse_pressed = (ev.state = "Pressed")],
          ret |-> TRUE, calls |-> <<>>]
    ELSE [self |-> self, ret |-> FALSE, calls |-> <<>>]

\* State::input that takes every mouse button for the left one
input_any_button(self, ev) ==
    IF ev.kind = "KeyboardInput" /\ ev.key = "Space"
    THEN [self |-> [self EXCEPT !.use_debug = (ev.state = "Pressed")],
          ret |-> TRUE, calls |-> <<>>]
    ELSE IF ev.kind = "KeyboardInput" /\ ev.key # "None"
    THEN LET r == process_keyboard(self.camera_controller, ev.key, ev.state)
         IN  [self |-> [self EXCEPT !.camera_controller = r.controller],
              ret |-> r.ret,
              calls |-> <<Op("process_keyboard", ev.key)>>]
    ELSE IF ev.kind = "MouseWheel"
    THEN [self |-> [self EXCEPT
                      !.camera_controller = process_scroll(@, ev.delta)],
          ret |-> TRUE,
          calls |-> <<Op("process_scroll", "delta")>>]
    ELSE IF ev.kind = "MouseInput"
    THEN [self |-> [self EXCEPT !.mouse_pressed = (ev.state = "Pressed")],
          ret |-> TRUE, calls |-> <<>>]
    ELSE [self |-> self, ret |-> FALSE, calls |-> <<>>]

\* State::input
input(self, ev) ==
    IF ev.kind = "KeyboardInput" /\ ev.key = "Space"
    THEN [self |-> [self EXCEPT !.use_debug = (ev.state = "Pressed")],
          ret |-> TRUE, calls |-> <<>>]
    ELSE IF ev.kind = "KeyboardInput" /\ ev.key # "None"
    THEN LET r == process_keyboard(self.camera_controller, ev.key, ev.state)
         IN  [self |-> [self EXCEPT !.camera_controller = r.controller],
              ret |-> r.ret,
              calls |-> <<Op("process_keyboard", ev.key)>>]
    ELSE IF ev.kind = "MouseWheel"
    THEN [self |-> [self EXCEPT
                      !.camera_controller = process_scroll(@, ev.delta)],
          ret |-> TRUE,
          calls |-> <<Op("process_scroll", "delta")>>]
    ELSE IF ev.kind = "MouseInput" /\ ev.button = "Left"
    THEN [self |-> [self EXCEPT !.mouse_pressed = (ev.state = "Pressed")],
          ret |-> TRUE, calls |-> <<>>]
    ELSE [self |-> self, ret |-> FALSE, calls |-> <<>>]

\* State::update
update(self, dt) ==
    LET r == update_camera(self.camera_controller, self.camera, dt)
        camera_uniform == update_view_proj(r.camera, self.projection)
        light_uniform == self.light_uniform + 1
    IN  [self |-> [self EXCEPT
                     !.camera = r.camera,
                     !.camera_controller = r.controller,
                     !.camera_uniform = camera_uniform,
                     !.camera_buffer = camera_uniform,
                     !.light_uniform = light_uniform,
                     !.light_buffer = light_uniform],
         calls |-> <<Op("update_camera", "camera"),
                     Op("queue.write_buffer", "camera_buffer"),
                     Op("queue.write_buffer", "light_buffer")>>]

\* State::render with the two draws exchanged: the model first, then the light
render_model_first(self, acquired) ==
    IF acquired # "Ok"
    THEN [ret |-> acquired,
          calls |-> <<Op("surface.get_current_texture", acquired)>>]
    ELSE [ret |-> "Ok",
          calls |->
            <<Op("surface.get_current_texture", acquired),
              Op("create_view", "output"),
              Op("create_command_encoder", "device"),
              Call("begin_render_pass", "depth_texture", 0, self.depth_texture),
              Op("set_vertex_buffer", "instance_buffer"),
              Op("set_pipeline", "render_pipeline"),
              IF self.use_debug
              THEN Call("draw_model_instanced_with_material", "debug_material",
                        self.instances, Dim(0, 0))
              ELSE Call("draw_model_instanced", "obj_model",
                        self.instances, Dim(0, 0)),
              Op("set_pipeline", "light_render_pipeline"),
              Call("draw_light_model", "obj_model", 1, Dim(0, 0)),
              Op("end_render_pass", "render_pass"),
              Op("encoder.finish", "encoder"),
              Op("queue.submit", "encoder"),
              Op("output.present", "output")>>]

\* State::render that builds and submits the encoder before it looks at the
\* result of the acquisition
render_submit_unacquired(self, acquired) ==
    IF acquired # "Ok"
    THEN [ret |-> acquired,
          calls |-> <<Op("create_command_encoder", "device"),
                      Op("surface.get_current_texture", acquired),
                      Op("encoder.finish", "encoder"),
                      Op("queue.submit", "encoder")>>]
    ELSE [ret |-> "Ok",
          calls |->
            <<Op("surface.get_current_texture", acquired),
              Op("create_view", "output"),
              Op("create_command_encoder", "device"),
              Call("begin_render_pass", "depth_texture", 0, self.depth_texture),
              Op("set_vertex_buffer", "instance_buffer"),
              Op("set_pipeline", "light_render_pipeline"),
              Call("draw_light_model", "obj_model", 1, Dim(0, 0)),
              Op("set_pipeline", "render_pipeline"),
              IF self.use_debug
              THEN Call("draw_model_instanced_with_material", "debug_material",
                        self.instances, Dim(0, 0))
              ELSE Call("draw_model_instanced", "obj_model",
                        self.instances, Dim(0, 0)),
              Op("end_render_pass", "render_pass"),
              Op("encoder.finish", "encoder"),
              Op("queue.submit", "encoder"),
              Op("output.present", "output")>>]

\* State::render that draws with the mesh's own materials whatever use_debug is
render_own_materials_only(self, acquired) ==
    IF acquired # "Ok"
    THEN [ret |-> acquired,
          calls |-> <<Op("surface.get_current_texture", acquired)>>]
    ELSE [ret |-> "Ok",
          calls |->
            <<Op("surface.get_current_texture", acquired),
              Op("create_view", "output"),
              Op("create_command_encoder", "device"),
              Call("begin_render_pass", "depth_texture", 0, self.depth_texture),
              Op("set_vertex_buffer", "instance_buffer"),
              Op("set_pipeline", "light_render_pipeline"),
              Call("draw_light_model", "obj_model", 1, Dim(0, 0)),
              Op("set_pipeline", "render_pipeline"),
              Call("draw_model_instanced", "obj_model",
                   self.instances, Dim(0, 0)),
              Op("end_render_pass", "render_pass"),
              Op("encoder.finish", "encoder"),
              Op("queue.submit", "encoder"),
              Op("output.present", "output")>>]

\* State::render; acquired is what surface.get_current_texture() returns
render(self, acquired) ==
    IF acquired # "Ok"
    THEN [ret |-> acquired,
          calls |-> <<Op("surface.get_current_texture", acquired)>>]
    ELSE [ret |-> "Ok",
          calls |->
            <<Op("surface.get_current_texture", acquired),
              Op("create_view", "output"),
              Op("create_command_encoder", "device"),
              Call("begin_render_pass", "depth_texture", 0, self.depth_texture),
              Op("set_vertex_buffer", "instance_buffer"),
              Op("set_pipeline", "light_render_pipeline"),
              Call("draw_light_model", "obj_model", 1, Dim(0, 0)),
              Op("set_pipeline", "render_pipeline"),
              IF self.use_debug
              THEN Call("draw_model_instanced_with_material", "debug_material",
                        self.instances, Dim(0, 0))
              ELSE Call("draw_model_instanced", "obj_model",
                        self.instances, Dim(0, 0)),
              Op("end_render_pass", "render_pass"),
              Op("encoder.finish", "encoder"),
              Op("queue.submit", "encoder"),
              Op("output.present", "output")>>]

\* renderer::render, the free-function form of the same frame
renderer_render(self, acquired) ==
    IF acquired # "Ok"
    THEN [ret |-> acquired,
          calls |-> <<Op("surface.get_current_texture", acquired)>>]
    ELSE [ret |-> "Ok",
          calls |->
            <<Op("surface.get_current_texture", acquired),
              Op("create_view", "output"),
              Op("create_command_encoder", "device"),
              Call("begin_render_pass", "depth_texture", 0, self.depth_texture),
              Op("set_vertex_buffer", "instance_buffer"),
              Op("set_pipeline", "light_render_pipeline"),
              Call("draw_light_model", "obj_model", 1, Dim(0, 0)),
              Op("set_pipeline", "render_pipeline"),
              IF self.use_debug
              THEN Call("draw_model_instanced_with_material", "debug_material",
                        self.instances, Dim(0, 0))
              ELSE Call("draw_model_instanced", "obj_model",
                        self.instances, Dim(0, 0)),
              Op("end_render_pass", "render_pass"),
              Op("encoder.finish", "encoder"),
              Op("queue.submit", "encoder"),
              Op("output.present", "output")>>]

\* --------------------------------------------------------------- events
ElementStates == {"Pressed", "Released"}
Keys == {"Space", "W", "Escape"}
Acquired == {"Ok", "Lost", "Outdated", "OutOfMemory", "Timeout"}

\* new sizes a window reports: every non-empty size and the three empty shapes
Sizes ==
    {Dim(w, h) : w \in 1 .. MaxDim, h \in 1 .. MaxDim}
    \cup {Dim(0, 0), Dim(0, MaxDim), Dim(MaxDim, 0)}

Ev(kind) ==
    [kind |-> kind, key |-> "None", state |-> "None", button |-> "None",
     width |-> 0, height |-> 0, delta |-> 0, acquired |-> "None", dt |-> 0]

KeyEvents ==
    {[Ev("KeyboardInput") EXCEPT !.key = k, !.state = s] :
        k \in Keys, s \in ElementStates}
    \cup {[Ev("KeyboardInput") EXCEPT !.state = "Pressed"]}

ButtonEvents ==
    {[Ev("MouseInput") EXCEPT !.button = "Left", !.state = s] : s \in ElementStates}
    \cup {[Ev("MouseInput") EXCEPT !.button = "Right", !.state = "Pressed"]}

WheelEvents == {[Ev("MouseWheel") EXCEPT !.delta = 1]}

ResizeEvents ==
    {[Ev("Resized") EXCEPT !.width = d.width, !.height = d.height] : d \in Sizes}
    \cup {[Ev("ScaleFactorChanged") EXCEPT !.width = d.width, !.height = d.height] :
            d \in {Dim(MaxDim, 1), Dim(0, MaxDim)}}

WindowEvents ==
    KeyEvents \cup ButtonEvents \cup WheelEvents \cup ResizeEvents
    \cup {Ev("CloseRequested"), Ev("CursorLeft")}

MotionEvents == {[Ev("MouseMotion") EXCEPT !.delta = 1]}

RedrawEvents ==
    {[Ev("RedrawRequested") EXCEPT !.dt = 1, !.acquired = a] : a \in Acquired}

Events ==
    WindowEvents \cup MotionEvents \cup RedrawEvents \cup {Ev("MainEventsCleared")}

\* ------------------------------------------------- the closure of run()
Handled(self, made, flow, ret) ==
    [self |-> self, calls |-> made, control_flow |-> flow, consumed |-> ret]

\* arm Event::DeviceEvent { MouseMotion } without the mouse_pressed test
on_mouse_motion_ungated(self, ev) ==
    Handled([self EXCEPT !.camera_controller = process_mouse(@, ev.delta)],
            <<Op("process_mouse", "delta")>>, "Poll", "none")

\* arm Event::DeviceEvent { MouseMotion }
on_mouse_motion(self, ev) ==
    IF self.mouse_pressed
    THEN Handled([self EXCEPT !.camera_controller = process_mouse(@, ev.delta)],
                 <<Op("process_mouse", "delta")>>, "Poll", "none")
    ELSE Handled(self, <<>>, "Poll", "none")

\* arm Event::WindowEvent: the guard calls State::input, the body runs when it
\* returned false
on_window_event(self, ev) ==
    LET i == input(self, ev)
    IN  IF i.ret
        THEN Handled(i.self, i.calls, "Poll", "true")
        ELSE IF ev.kind = "CloseRequested"
                \/ (ev.kind = "KeyboardInput" /\ ev.state = "Pressed"
                    /\ ev.key = "Escape")
        THEN Handled(i.self, i.calls, "Exit", "false")
        ELSE IF ev.kind \in {"Resized", "ScaleFactorChanged"}
        THEN LET r == resize(i.self, Dim(ev.width, ev.height))
             IN  Handled(r.self, i.calls \o r.calls, "Poll", "false")
        ELSE Handled(i.self, i.calls, "Poll", "false")

\* arm Event::RedrawRequested that treats Lost and Outdated like Timeout
on_redraw_no_recovery(self, ev) ==
    LET u == update(self, ev.dt)
        r == render(u.self, ev.acquired)
    IN  IF r.ret = "Ok"
        THEN Handled(u.self, u.calls \o r.calls, "Poll", "none")
        ELSE IF r.ret = "OutOfMemory"
        THEN Handled(u.self, u.calls \o r.calls, "Exit", "none")
        ELSE Handled(u.self,
                     u.calls \o r.calls \o <<Op("log::warn", "Surface timeout")>>,
                     "Poll", "none")

\* arm Event::RedrawRequested that also exits on Lost
on_redraw_lost_exits(self, ev) ==
    LET u == update(self, ev.dt)
        r == render(u.self, ev.acquired)
    IN  IF r.ret = "Ok"
        THEN Handled(u.self, u.calls \o r.calls, "Poll", "none")
        ELSE IF r.ret = "Outdated"
        THEN LET z == resize(u.self, u.self.size)
             IN  Handled(z.self, u.calls \o r.calls \o z.calls, "Poll", "none")
        ELSE IF r.ret \in {"OutOfMemory", "Lost"}
        THEN Handled(u.self, u.calls \o r.calls, "Exit", "none")
        ELSE Handled(u.self,
                     u.calls \o r.calls \o <<Op("log::warn", "Surface timeout")>>,
                     "Poll", "none")

\* arm Event::RedrawRequested that reconfigures the surface on Timeout too
on_redraw_timeout_reconfigures(self, ev) ==
    LET u == update(self, ev.dt)
        r == render(u.self, ev.acquired)
    IN  IF r.ret = "Ok"
        THEN Handled(u.self, u.calls \o r.calls, "Poll", "none")
        ELSE IF r.ret \in {"Lost", "Outdated", "Timeout"}
        THEN LET z == resize(u.self, u.self.size)
             IN  Handled(z.self, u.calls \o r.calls \o z.calls, "Poll", "none")
        ELSE Handled(u.self, u.calls \o r.calls, "Exit", "none")

\* arm Event::RedrawRequested that renders first and updates afterwards
on_redraw_render_first(self, ev) ==
    LET r == render(self, ev.acquired)
        u == update(self, ev.dt)
    IN  IF r.ret = "Ok"
        THEN Handled(u.self, r.calls \o u.calls, "Poll", "none")
        ELSE IF r.ret \in {"Lost", "Outdated"}
        THEN LET z == resize(u.self, u.self.size)
             IN  Handled(z.self, r.calls \o u.calls \o z.calls, "Poll", "none")
        ELSE IF r.ret = "OutOfMemory"
        THEN Handled(u.self, r.calls \o u.calls, "Exit", "none")
        ELSE Handled(u.self,
                     r.calls \o u.calls \o <<Op("log::warn", "Surface timeout")>>,
                     "Poll", "none")

\* arm Event::RedrawRequested
on_redraw(self, ev) ==
    LET u == update(self, ev.dt)
        r == render(u.self, ev.acquired)
    IN  IF r.ret = "Ok"
        THEN Handled(u.self, u.calls \o r.calls, "Poll", "none")
        ELSE IF r.ret \in {"Lost", "Outdated"}
        THEN LET z == resize(u.self, u.self.size)
             IN  Handled(z.self, u.calls \o r.calls \o z.calls, "Poll", "none")
        ELSE IF r.ret = "OutOfMemory"
        THEN Handled(u.self, u.calls \o r.calls, "Exit", "none")
        ELSE Handled(u.self,
                     u.calls \o r.calls \o <<Op("log::warn", "Surface timeout")>>,
                     "Poll", "none")

\* the closure given to event_loop.run: *control_flow = Poll, then the match
closure(self, ev) ==
    IF ev.kind = "MainEventsCleared"
    THEN Handled(self, <<Op("window.request_redraw", "window")>>, "Poll", "none")
    ELSE IF ev.kind = "MouseMotion" THEN on_mouse_motion(self, ev)
    ELSE IF ev.kind = "RedrawRequested" THEN on_redraw(self, ev)
    ELSE on_window_event(self, ev)

\* ------------------------------------------------------------ observers
OpIdx(cs, op) == {i \in DOMAIN cs : cs[i].op = op}

ArgIdx(cs, op, arg) == {i \in DOMAIN cs : cs[i].op = op /\ cs[i].arg = arg}

ModelDraws(cs) ==
    OpIdx(cs, "draw_model_instanced")
    \cup OpIdx(cs, "draw_model_instanced_with_material")

\* the material the model draw of a frame is given ("none": no model draw)
MaterialIn(cs) ==
    IF ModelDraws(cs) = {} THEN "none"
    ELSE cs[CHOOSE i \in ModelDraws(cs) : TRUE].arg

IsRedraw(ev, outcomes) == ev.kind = "RedrawRequested" /\ ev.acquired \in outcomes

IsSpace(ev, key_state) ==
    ev.kind = "KeyboardInput" /\ ev.key = "Space" /\ ev.state = key_state

\* Space events since the last presented frame: "pressed" after exactly one
\* press, "pair" after exactly one press then one release, "other" otherwise;
\* a presented frame that follows a pair is marked "drawn_after_pair".
SpaceStep(t, ev) ==
    IF IsRedraw(ev, {"Ok"})
    THEN IF t = "pair" THEN "drawn_after_pair" ELSE "none"
    ELSE IF IsSpace(ev, "Pressed")
    THEN IF t \in {"none", "drawn_after_pair"} THEN "pressed" ELSE "other"
    ELSE IF IsSpace(ev, "Released")
    THEN IF t = "pressed" THEN "pair" ELSE "other"
    ELSE t

\* ------------------------------------------------------------ the system
\* the pending deltas and the frame count stay within the bounds of the model
InBounds(self) ==
    /\ self.camera_controller.rotate_horizontal \in 0 .. MaxAccum
    /\ self.camera_controller.scroll \in 0 .. MaxAccum
    /\ self.light_uniform \in 0 .. MaxFrames

\* one call of the closure with ev
Deliver(ev) ==
    /\ \E r \in {closure(state, ev)} :
           /\ InBounds(r.self)
           /\ state' = r.self
           /\ calls' = r.calls
           /\ control_flow' = r.control_flow
           /\ consumed' = r.consumed
           /\ shown' = IF IsRedraw(ev, {"Ok"}) THEN MaterialIn(r.calls) ELSE shown
    /\ event' = ev
    /\ last_left' = IF ev.kind = "MouseInput" /\ ev.button = "Left"
                    THEN ev.state ELSE last_left
    /\ toggled' = SpaceStep(toggled, ev)

Init ==
    /\ \E w \in 1 .. MaxDim, h \in 1 .. MaxDim : state = StateNew(w, h)
    /\ control_flow = "Poll"
    /\ event = Ev("Init")
    /\ consumed = "none"
    /\ calls = <<>>
    /\ last_left = "None"
    /\ shown = "none"
    /\ toggled = "none"

MainEventsCleared ==
    /\ control_flow = "Poll"
    /\ Deliver(Ev("MainEventsCleared"))

MouseMotion ==
    /\ control_flow = "Poll"
    /\ \E ev \in MotionEvents : Deliver(ev)

KeyboardInput ==
    /\ control_flow = "Poll"
    /\ \E ev \in KeyEvents : Deliver(ev)

MouseInput ==
    /\ control_flow = "Poll"
    /\ \E ev \in ButtonEvents : Deliver(ev)

MouseWheel ==
    /\ control_flow = "Poll"
    /\ \E ev \in WheelEvents : Deliver(ev)

Resized ==
    /\ control_flow = "Poll"
    /\ \E ev \in ResizeEvents : Deliver(ev)

OtherWindowEvent ==
    /\ control_flow = "Poll"
    /\ \E ev \in {Ev("CloseRequested"), Ev("CursorLeft")} : Deliver(ev)

RedrawRequested ==
    /\ control_flow = "Poll"
    /\ \E ev \in RedrawEvents : Deliver(ev)

\* the whole event loop
Next ==
    \/ MainEventsCleared
    \/ MouseMotion
    \/ KeyboardInput
    \/ MouseInput
    \/ MouseWheel
    \/ Resized
    \/ OtherWindowEvent
    \/ RedrawRequested

Spec == Init /\ [][Next]_vars

\* the loop of a window that is only resized and redrawn
NextSurface ==
    \/ MainEventsCleared
    \/ Resized
    \/ OtherWindowEvent
    \/ RedrawRequested

SpecSurface == Init /\ [][NextSurface]_vars

\* the loop of a window that gets keyboard input and is redrawn
NextFrame ==
    \/ MainEventsCleared
    \/ KeyboardInput
    \/ RedrawRequested

SpecFrame == Init /\ [][NextFrame]_vars

\* the loop between two redraws: every event but RedrawRequested
NextEvents ==
    \/ MainEventsCleared
    \/ MouseMotion
    \/ KeyboardInput
    \/ MouseInput
    \/ MouseWheel
    \/ Resized
    \/ OtherWindowEvent

SpecEvents == Init /\ [][NextEvents]_vars

\* the loop of a window that is scrolled, resized and redrawn
NextUpdate ==
    \/ MainEventsCleared
    \/ MouseWheel
    \/ Resized
    \/ RedrawRequested

SpecUpdate == Init /\ [][NextUpdate]_vars

\* ------------------------------------------------------------- properties
Before(A, B) == \A a \in A, b \in B : a < b

One(A) == Cardinality(A) = 1

\* one pass; inside it the light bind, the light draw, the model bind and the
\* model draw, in that order
FrameOrdered(cs) ==
    LET begin == OpIdx(cs, "begin_render_pass")
        finish == OpIdx(cs, "end_render_pass")
        light_bind == ArgIdx(cs, "set_pipeline", "light_render_pipeline")
        light_draw == OpIdx(cs, "draw_light_model")
        model_bind == ArgIdx(cs, "set_pipeline", "render_pipeline")
        model_draw == ModelDraws(cs)
    IN  /\ One(begin) /\ One(finish)
        /\ One(light_bind) /\ One(light_draw)
        /\ One(model_bind) /\ One(model_draw)
        /\ Before(begin, light_bind)
        /\ Before(light_bind, light_draw)
        /\ Before(light_draw, model_bind)
        /\ Before(model_bind, model_draw)
        /\ Before(model_draw, finish)

\* C1: in every frame whose acquisition succeeds there is one render pass, and
\* inside it the light pipeline is bound and the light draw issued before the
\* model pipeline is bound and the model draw issued; renderer::render issues
\* the same order.
C1_LightBeforeModel ==
    /\ IsRedraw(event, {"Ok"}) => FrameOrdered(calls)
    /\ FrameOrdered(renderer_render(state, "Ok").calls)

C1_Witness ==
    /\ IsRedraw(event, {"Ok"})
    /\ MaterialIn(calls) = "debug_material"
    /\ OpIdx(calls, "draw_light_model") # {}

\* the material a Render call made in this state binds for the model draw
MaterialOf(self) == MaterialIn(render(self, "Ok").calls)

\* C2 as claimed: the first frame presented after one Space press and release
\* binds the other material than the frame presented before them.
C2_PairFlipsMaterial ==
    [][(toggled = "pair" /\ shown # "none" /\ IsRedraw(event', {"Ok"}))
        => shown' # shown]_vars

\* C2 as amended: debug mode is on exactly while Space is held.  A Render made
\* after a Space press binds the debug material, a Render made after the
\* release binds the mesh's own materials, so the frame that follows a press
\* and release binds the mesh's own materials whatever the frame before bound.
C2_DebugWhileHeld ==
    /\ toggled = "pressed" => MaterialOf(state) = "debug_material"
    /\ toggled = "pair" => MaterialOf(state) = "obj_model"
    /\ toggled = "drawn_after_pair" => shown = "obj_model"
    /\ IsSpace(event, "Pressed") => state.use_debug
    /\ IsSpace(event, "Released") => ~state.use_debug

C2_Witness ==
    /\ toggled = "drawn_after_pair"
    /\ IsRedraw(event, {"Ok"})
    /\ state.light_uniform = 2

\* what a frame does with the encoder, the queue and the surface image
Submitted(cs) ==
    LET begin == OpIdx(cs, "begin_render_pass")
        finish == OpIdx(cs, "end_render_pass")
        submit == OpIdx(cs, "queue.submit")
        present == OpIdx(cs, "output.present")
    IN  /\ One(begin) /\ One(finish) /\ One(submit) /\ One(present)
        /\ Before(begin, finish)
        /\ Before(finish, submit)
        /\ Before(submit, present)

NothingSubmitted(cs) ==
    /\ OpIdx(cs, "begin_render_pass") = {}
    /\ OpIdx(cs, "queue.submit") = {}
    /\ OpIdx(cs, "output.present") = {}

\* C8: a frame whose acquisition fails opens no pass, submits nothing and
\* presents nothing; a frame whose acquisition succeeds closes its one pass
\* before its one submit, and its one present follows the submit.
C8_NoHalfSubmit ==
    /\ IsRedraw(event, Acquired \ {"Ok"}) => NothingSubmitted(calls)
    /\ IsRedraw(event, {"Ok"}) => Submitted(calls)
    /\ \A a \in Acquired \ {"Ok"} : NothingSubmitted(renderer_render(state, a).calls)
    /\ Submitted(renderer_render(state, "Ok").calls)

C8_Witness ==
    /\ IsRedraw(event, {"Lost", "Outdated", "OutOfMemory", "Timeout"})
    /\ shown # "none"
    /\ OpIdx(calls, "surface.get_current_texture") # {}

EmptySize(ev) == ev.width = 0 \/ ev.height = 0

\* C3: a resize request whose width or height is 0 changes nothing: State is
\* what it was (aspect, size, surface configuration and depth texture
\* included), the surface is not configured and no depth texture is created.
C3_EmptyResizeIsNoOp ==
    /\ \A d \in Sizes :
        (d.width = 0 \/ d.height = 0)
            => resize(state, d) = [self |-> state, calls |-> <<>>]
    /\ \A ev \in ResizeEvents :
        EmptySize(ev)
            => /\ closure(state, ev).self = state
               /\ closure(state, ev).calls = <<>>
               /\ closure(state, ev).control_flow = "Poll"
    /\ (event \in ResizeEvents /\ EmptySize(event)) => calls = <<>>

C3_Witness ==
    /\ event \in ResizeEvents
    /\ event.width = 0
    /\ event.height > 0
    /\ state.projection.aspect = <<2, 1>>
    /\ state.config = Dim(2, 1)

\* the surface is configured and then the depth texture created, both with
\* the size d, after the acquisition
Reconfigured(cs, d) ==
    LET acquire == OpIdx(cs, "surface.get_current_texture")
        configure == OpIdx(cs, "surface.configure")
        depth == OpIdx(cs, "create_depth_texture")
    IN  /\ One(acquire) /\ One(configure) /\ One(depth)
        /\ Before(acquire, configure)
        /\ Before(configure, depth)
        /\ \A i \in configure \cup depth : cs[i].dim = d

\* C5: when the acquisition fails with Lost or Outdated the loop goes on: the
\* surface is configured again and the depth texture created again, both at
\* the stored size, in that same redraw, and a redraw delivered next asks for
\* a surface image again.
C5_LostOrOutdatedRecovers ==
    IsRedraw(event, {"Lost", "Outdated"})
        => /\ control_flow = "Poll"
           /\ Reconfigured(calls, state.size)
           /\ state.config = state.size
           /\ state.depth_texture = state.size
           /\ \A ev \in RedrawEvents :
                OpIdx(closure(state, ev).calls, "surface.get_current_texture") # {}

C5_Witness ==
    /\ IsRedraw(event, {"Outdated"})
    /\ state.size = Dim(1, 2)
    /\ OpIdx(calls, "surface.configure") # {}

\* C6: a redraw ends the loop exactly when its acquisition failed with
\* OutOfMemory.
C6_OnlyOutOfMemoryExits ==
    /\ IsRedraw(event, Acquired)
        => (control_flow = "Exit" <=> event.acquired = "OutOfMemory")
    /\ \A ev \in RedrawEvents :
        closure(state, ev).control_flow = "Exit" <=> ev.acquired = "OutOfMemory"

C6_Witness ==
    /\ IsRedraw(event, {"OutOfMemory"})
    /\ control_flow = "Exit"
    /\ state.light_uniform = 2

\* C10: the surface configuration always has a height above 0 and the
\* projection's aspect is the configured width over the configured height.
C10_AspectIsWidthOverHeight ==
    /\ state.config.height > 0
    /\ state.projection.aspect[2] > 0
    /\ state.projection.aspect[1] * state.config.height
         = state.projection.aspect[2] * state.config.width

C10_Witness ==
    /\ event \in ResizeEvents
    /\ event.width = 1
    /\ event.height = 2
    /\ state.projection.aspect = <<1, 2>>
    /\ shown # "none"

\* the events State::input always consumes
AlwaysConsumed(ev) ==
    \/ ev.kind = "KeyboardInput" /\ ev.key = "Space"
    \/ ev.kind = "MouseWheel"
    \/ ev.kind = "MouseInput" /\ ev.button = "Left"

\* the key events State::input hands to the camera controller
OtherKey(ev) ==
    ev.kind = "KeyboardInput" /\ ev.key \notin {"Space", "None"}

\* C4: input returns true for every Space key event, every mouse-wheel event
\* and every left-button event; for any other key event it returns what the
\* camera controller's process_keyboard returns; for every other window event
\* it returns false and leaves State as it was.
C4_InputConsumes ==
    /\ \A ev \in WindowEvents :
        LET i == input(state, ev)
        IN  /\ AlwaysConsumed(ev) => i.ret = TRUE
            /\ OtherKey(ev) =>
                 /\ i.ret = process_keyboard(state.camera_controller,
                                             ev.key, ev.state).ret
                 /\ i.calls = <<Op("process_keyboard", ev.key)>>
            /\ (~AlwaysConsumed(ev) /\ ~OtherKey(ev)) =>
                 /\ i.ret = FALSE
                 /\ i.self = state
                 /\ i.calls = <<>>
    /\ event \in WindowEvents =>
        /\ AlwaysConsumed(event) => consumed = "true"
        /\ OtherKey(event) =>
             consumed = (IF event.key \in CameraKeys THEN "true" ELSE "false")
        /\ (~AlwaysConsumed(event) /\ ~OtherKey(event)) => consumed = "false"

C4_Witness ==
    /\ event.kind = "MouseInput"
    /\ event.button = "Right"
    /\ consumed = "false"
    /\ state.mouse_pressed
    /\ state.camera_controller.amount_forward = 1

Forwarded(cs) == OpIdx(cs, "process_mouse") # {}

\* C9: a mouse-motion event reaches the controller's process_mouse exactly
\* when the most recent left-button event delivered to input was a press.
C9_MotionOnlyWhileHeld ==
    /\ state.mouse_pressed <=> last_left = "Pressed"
    /\ \A ev \in MotionEvents :
        Forwarded(closure(state, ev).calls) <=> last_left = "Pressed"
    /\ event \in MotionEvents => (Forwarded(calls) <=> last_left = "Pressed")

C9_Witness ==
    /\ event \in MotionEvents
    /\ Forwarded(calls)
    /\ state.camera_controller.rotate_horizontal = 1

\* C7 as claimed: a redraw whose acquisition times out leaves the camera, the
\* light position, both uniform buffers, the surface configuration, the depth
\* texture and the debug / look flags as they were.
C7_TimeoutMutatesNothing ==
    [][IsRedraw(event', {"Timeout"})
        => /\ state'.camera = state.camera
           /\ state'.light_uniform = state.light_uniform
           /\ state'.camera_buffer = state.camera_buffer
           /\ state'.light_buffer = state.light_buffer
           /\ state'.config = state.config
           /\ state'.depth_texture = state.depth_texture
           /\ state'.use_debug = state.use_debug
           /\ state'.mouse_pressed = state.mouse_pressed
           /\ control_flow' = "Poll"]_vars

\* C7 as amended: Update runs before the acquisition, so a redraw whose
\* acquisition times out has moved the camera, advanced the light by one step
\* and written both uniform buffers; past that it changes nothing: the
\* surface configuration, the size, the depth texture and the debug / look
\* flags are as before, nothing is configured, created, submitted or
\* presented, and the loop goes on.
C7_TimeoutKeepsOnlyUpdate ==
    /\ \A ev \in RedrawEvents :
        ev.acquired = "Timeout" =>
            LET r == closure(state, ev)
            IN  /\ r.control_flow = "Poll"
                /\ r.self = update(state, ev.dt).self
                /\ r.self.light_uniform = state.light_uniform + 1
                /\ r.self.light_buffer = r.self.light_uniform
                /\ r.self.camera_buffer = r.self.camera_uniform
                /\ r.self.config = state.config
                /\ r.self.size = state.size
                /\ r.self.depth_texture = state.depth_texture
                /\ r.self.projection = state.projection
                /\ r.self.use_debug = state.use_debug
                /\ r.self.mouse_pressed = state.mouse_pressed
                /\ NothingSubmitted(r.calls)
                /\ OpIdx(r.calls, "surface.configure") = {}
                /\ OpIdx(r.calls, "create_depth_texture") = {}
    /\ IsRedraw(event, {"Timeout"}) =>
        /\ control_flow = "Poll"
        /\ NothingSubmitted(calls)
        /\ OpIdx(calls, "surface.configure") = {}
        /\ OpIdx(calls, "create_depth_texture") = {}
        /\ state.light_buffer = state.light_uniform
        /\ state.camera_buffer = state.camera_uniform

C7_Witness ==
    /\ IsRedraw(event, {"Timeout"})
    /\ state.light_uniform = 1
    /\ state.camera.position = 1
    /\ state.use_debug

\* what a resize to the size d records: the surface configured, then the depth
\* texture created, both with d
ResizedTo(d) ==
    <<Call("surface.configure", "config", 0, d),
      Call("create_depth_texture", "config", 0, d)>>

\* the sizes of the depth attachments of the passes begun in cs
DepthAttached(cs) == {cs[i].dim : i \in OpIdx(cs, "begin_render_pass")}

\* C11: at every surface acquisition, whatever resizes and frames came before,
\* the depth texture has the size of the surface configuration, which is the
\* stored size; a resize to a non-empty size configures the surface and
\* creates the depth texture inside the resize handler itself, so the state
\* is already consistent when the handler returns.
C11_DepthMatchesSurface ==
    /\ state.config = state.size
    /\ state.depth_texture = state.config
    /\ \A ev \in RedrawEvents :
        LET u == update(state, ev.dt)
            r == closure(state, ev)
        IN  /\ u.self.depth_texture = u.self.config
            /\ u.self.config = u.self.size
            /\ One(OpIdx(r.calls, "surface.get_current_texture"))
            /\ DepthAttached(r.calls) \subseteq {state.config}
            /\ ev.acquired = "Ok" => DepthAttached(r.calls) = {state.size}
    /\ \A ev \in ResizeEvents :
        ~EmptySize(ev)
            => LET r == closure(state, ev)
                   d == Dim(ev.width, ev.height)
               IN  /\ r.calls = ResizedTo(d)
                   /\ r.self.size = d
                   /\ r.self.config = d
                   /\ r.self.depth_texture = d
    /\ IsRedraw(event, {"Ok"}) => DepthAttached(calls) = {state.size}
    /\ (event \in ResizeEvents /\ ~EmptySize(event))
        => /\ calls = ResizedTo(state.size)
           /\ state.size = Dim(event.width, event.height)

\* a resize from 1x2 to 2x1 delivered after a frame was drawn at 1x2
C11_Witness ==
    /\ event \in ResizeEvents
    /\ event.width = 2
    /\ event.height = 1
    /\ state.light_uniform = 1
    /\ state.camera_buffer.aspect = <<1, 2>>
    /\ state.depth_texture = Dim(2, 1)
    /\ calls = ResizedTo(Dim(2, 1))

\* the writes of the two uniform buffers recorded in cs
BufferWrites(cs) == OpIdx(cs, "queue.write_buffer")

\* Update ran once in cs, wrote each of the two buffers once, and all of it
\* came before the one acquisition of the surface image
UpdatedThenRendered(cs) ==
    LET acquire == OpIdx(cs, "surface.get_current_texture")
        integrate == OpIdx(cs, "update_camera")
        camera_write == ArgIdx(cs, "queue.write_buffer", "camera_buffer")
        light_write == ArgIdx(cs, "queue.write_buffer", "light_buffer")
    IN  /\ One(acquire) /\ One(integrate)
        /\ One(camera_write) /\ One(light_write)
        /\ BufferWrites(cs) = camera_write \cup light_write
        /\ Before(integrate, camera_write)
        /\ Before(camera_write, light_write)
        /\ Before(light_write, acquire)

\* C12: every redraw runs Update once and before its Render; the camera and
\* light uniform buffers are written by Update only, never by an input, a
\* resize or a render step, so the buffers a presented frame reads hold what
\* the Update of that same redraw wrote.
C12_UpdateThenRender ==
    /\ \A ev \in RedrawEvents :
        LET u == update(state, ev.dt)
            r == closure(state, ev)
        IN  /\ UpdatedThenRendered(r.calls)
            /\ r.self.camera_buffer = u.self.camera_buffer
            /\ r.self.light_buffer = u.self.light_buffer
            /\ BufferWrites(render(u.self, ev.acquired).calls) = {}
    /\ \A ev \in Events \ RedrawEvents :
        LET r == closure(state, ev)
        IN  /\ BufferWrites(r.calls) = {}
            /\ r.self.camera_buffer = state.camera_buffer
            /\ r.self.light_buffer = state.light_buffer
    /\ \A ev \in WindowEvents :
        LET i == input(state, ev)
        IN  /\ BufferWrites(i.calls) = {}
            /\ i.self.camera_buffer = state.camera_buffer
            /\ i.self.light_buffer = state.light_buffer
    /\ \A d \in Sizes :
        LET z == resize(state, d)
        IN  /\ BufferWrites(z.calls) = {}
            /\ z.self.camera_buffer = state.camera_buffer
            /\ z.self.light_buffer = state.light_buffer
    /\ event.kind = "RedrawRequested"
        => /\ UpdatedThenRendered(calls)
           /\ state.camera_buffer = update_view_proj(state.camera, state.projection)
           /\ state.light_buffer = state.light_uniform
    /\ event.kind # "RedrawRequested" => BufferWrites(calls) = {}

\* the second frame, presented after a scroll and at the size 2x1: the buffers
\* hold the moved camera and the light's second step
C12_Witness ==
    /\ IsRedraw(event, {"Ok"})
    /\ state.camera.position = 1
    /\ state.camera_buffer = [position |-> 1, yaw |-> 0, aspect |-> <<2, 1>>]
    /\ state.light_buffer = 2
    /\ OpIdx(calls, "output.present") # {}

\* the one model draw of cs covers the instances 0 .. n and is given the debug
\* material when debug holds, the mesh with its own materials otherwise
ModelDrawnWith(cs, n, debug) ==
    /\ One(ModelDraws(cs))
    /\ \A i \in ModelDraws(cs) :
        /\ cs[i].n = n
        /\ IF debug
           THEN cs[i].op = "draw_model_instanced_with_material"
                /\ cs[i].arg = "debug_material"
           ELSE cs[i].op = "draw_model_instanced"
                /\ cs[i].arg = "obj_model"

\* the one light draw of cs is given the mesh alone, no material, and is
\* drawn once
LightDrawnOnce(cs) ==
    /\ One(OpIdx(cs, "draw_light_model"))
    /\ \A i \in OpIdx(cs, "draw_light_model") :
        /\ cs[i].n = 1
        /\ cs[i].arg = "obj_model"

\* C13: every presented frame has one instanced model draw over the
\* instances 0 .. N, N being the instance count made at startup; the draw is
\* given the debug material exactly when debug mode is on when Render runs
\* and the mesh's own materials otherwise. The light draw of the frame is
\* given no material and is not multiplied by the instance count.
C13_OneInstancedModelDraw ==
    /\ state.instances = NumInstances
    /\ ModelDrawnWith(render(state, "Ok").calls, NumInstances, state.use_debug)
    /\ ModelDrawnWith(renderer_render(state, "Ok").calls, NumInstances,
                      state.use_debug)
    /\ LightDrawnOnce(render(state, "Ok").calls)
    /\ LightDrawnOnce(renderer_render(state, "Ok").calls)
    /\ \A ev \in RedrawEvents :
        ev.acquired = "Ok"
            => /\ ModelDrawnWith(closure(state, ev).calls, NumInstances,
                                 state.use_debug)
               /\ LightDrawnOnce(closure(state, ev).calls)
    /\ IsRedraw(event, {"Ok"})
        => /\ ModelDrawnWith(calls, NumInstances, state.use_debug)
           /\ LightDrawnOnce(calls)

\* a frame presented while Space is held, after a frame drawn with the mesh's
\* own materials
C13_Witness ==
    /\ IsRedraw(event, {"Ok"})
    /\ state.use_debug
    /\ state.light_uniform = 2
    /\ \E i \in DOMAIN calls :
        calls[i] = Call("draw_model_instanced_with_material", "debug_material",
                        NumInstances, Dim(0, 0))
    /\ \E i \in DOMAIN calls :
        calls[i] = Call("draw_light_model", "obj_model", 1, Dim(0, 0))

====
